---- MODULE Spec2Model ----
(***************************************************************************)
(* Forum content engine: the post, message, appeal and punishment routes   *)
(* of the server (routes module), the storage layer behind them, with its  *)
(* reputation counters (storage module), and the role/section permission   *)
(* helpers (permissions module).                                           *)
(*                                                                         *)
(* The database tables are the state.  Every route handler is one action:  *)
(* it reads the session, runs the handler's checks in the handler's order, *)
(* performs the storage call and records the HTTP response in lastOp.      *)
(***************************************************************************)
EXTENDS Integers, Sequences, FiniteSets, TLC

VARIABLES
    users,      \* users table: account id -> row (role)
    posts,      \* posts table: sequence of rows, posts[i].id = i (serial key)
    now,        \* wall clock used for createdAt / updatedAt
    lastOp,     \* the last request and its response
    messages,   \* messages table: sequence of rows
    punishments,\* punishments table: punishments[i] is {row} or {} once revoked
    appeals,    \* appeals table: sequence of rows, appeals[i].id = i
    counters,   \* users table, reputation columns: account id -> row
    calls,      \* increment calls made so far: account id -> number per kind
    signup,     \* signup requests: number started, those between check and insert
    discord     \* discord-bot module: discordClient, isConnecting, pending awaits

\* The tables that the post routes never touch.
system == <<signup, discord>>

others == <<messages, punishments, appeals, counters, calls, system>>

vars == <<users, posts, now, lastOp, messages, punishments, appeals, counters, calls,
          signup, discord>>

-----------------------------------------------------------------------------
(* Bounds of the model *)

MaxPosts == 2
MaxTime == 3

-----------------------------------------------------------------------------
(* Values *)

NULL == "null"
NoSession == "none"

Roles == {"user", "helper", "moderator", "admin", "developer", "owner"}

\* One account per role.
Accounts == {"alice", "hank", "mona", "adam", "dana", "olivia"}

AccountRole ==
    [a \in Accounts |->
        CASE a = "alice"  -> "user"
          [] a = "hank"   -> "helper"
          [] a = "mona"   -> "moderator"
          [] a = "adam"   -> "admin"
          [] a = "dana"   -> "developer"
          [] a = "olivia" -> "owner"]

Sessions == Accounts \cup {NoSession}

PUBLIC_SECTIONS == {"general", "off-topic", "code-share", "support", "bot", "website"}
PRIVATE_SECTIONS == {"player-reports", "bug-reports", "support-tickets"}
DEV_SECTIONS == {"dev-panel"}
Sections == PUBLIC_SECTIONS \cup PRIVATE_SECTIONS \cup DEV_SECTIONS

-----------------------------------------------------------------------------
(* permissions module *)

ROLE_HIERARCHY ==
    [r \in Roles |->
        CASE r = "user"      -> 0
          [] r = "helper"    -> 1
          [] r = "moderator" -> 2
          [] r = "admin"     -> 3
          [] r = "developer" -> 3
          [] r = "owner"     -> 4]

canAccessSection(role, section) ==
    IF section = "dev-panel"
    THEN role = "developer" \/ role = "owner"
    ELSE TRUE

canDeletePost(role) == ROLE_HIERARCHY[role] >= ROLE_HIERARCHY["moderator"]

canRevivePost(role) == ROLE_HIERARCHY[role] >= ROLE_HIERARCHY["admin"]

canTagBugReport_RankOnly(role) == ROLE_HIERARCHY[role] >= ROLE_HIERARCHY["developer"]

canTagBugReport(role) == role = "developer" \/ role = "owner"

canViewAllReports_RankOnly(role, section) ==
    IF section = "player-reports"
    THEN ROLE_HIERARCHY[role] >= ROLE_HIERARCHY["moderator"]
    ELSE IF section = "bug-reports"
    THEN ROLE_HIERARCHY[role] >= ROLE_HIERARCHY["developer"]
    ELSE IF section = "support-tickets"
    THEN ROLE_HIERARCHY[role] >= ROLE_HIERARCHY["helper"]
    ELSE FALSE

canViewAllReports(role, section) ==
    IF section = "player-reports"
    THEN ROLE_HIERARCHY[role] >= ROLE_HIERARCHY["moderator"]
    ELSE IF section = "bug-reports"
    THEN role = "developer" \/ role = "owner"
    ELSE IF section = "support-tickets"
    THEN ROLE_HIERARCHY[role] >= ROLE_HIERARCHY["helper"]
    ELSE FALSE

-----------------------------------------------------------------------------
(* storage module *)

PostIds == 1..Len(posts)

\* The rank table re-declared inside getPosts.
ROLE_HIERARCHY_getPosts ==
    [r \in Roles |->
        CASE r = "user"      -> 0
          [] r = "helper"    -> 1
          [] r = "moderator" -> 2
          [] r = "admin"     -> 3
          [] r = "developer" -> 3
          [] r = "owner"     -> 4]

getPostsWhere_RankOnly(p, section, requesterRole, requesterId) ==
    /\ p.section = section
    /\ IF section = "player-reports"
       THEN ROLE_HIERARCHY_getPosts[requesterRole] < ROLE_HIERARCHY_getPosts["moderator"]
                => p.authorId = requesterId
       ELSE IF section = "bug-reports"
       THEN ROLE_HIERARCHY_getPosts[requesterRole] < ROLE_HIERARCHY_getPosts["developer"]
                => p.authorId = requesterId
       ELSE IF section = "support-tickets"
       THEN ROLE_HIERARCHY_getPosts[requesterRole] < ROLE_HIERARCHY_getPosts["helper"]
                => p.authorId = requesterId
       ELSE TRUE

\* The WHERE condition getPosts builds: the section, and for the three report
\* sections the author filter for requesters without full visibility.
getPostsWhere(p, section, requesterRole, requesterId) ==
    /\ p.section = section
    /\ IF section = "player-reports"
       THEN ROLE_HIERARCHY_getPosts[requesterRole] < ROLE_HIERARCHY_getPosts["moderator"]
                => p.authorId = requesterId
       ELSE IF section = "bug-reports"
       THEN (requesterRole # "developer" /\ requesterRole # "owner")
                => p.authorId = requesterId
       ELSE IF section = "support-tickets"
       THEN ROLE_HIERARCHY_getPosts[requesterRole] < ROLE_HIERARCHY_getPosts["helper"]
                => p.authorId = requesterId
       ELSE TRUE

\* ORDER BY created_at DESC: every ordering of the selected rows in which
\* createdAt never increases (rows with equal createdAt come in any order).
OrderByCreatedAtDesc(ids) ==
    {s \in [1..Cardinality(ids) -> ids] :
        /\ \A i, j \in 1..Cardinality(ids) : i < j => s[i] # s[j]
        /\ \A i, j \in 1..Cardinality(ids) :
             i < j => posts[s[i]].createdAt >= posts[s[j]].createdAt}

\* getPosts: the possible result lists (rows, deleted flag included).
getPosts(section, requesterRole, requesterId) ==
    LET ids == {i \in PostIds : getPostsWhere(posts[i], section, requesterRole, requesterId)}
    IN  {[k \in 1..Cardinality(ids) |-> posts[s[k]]] : s \in OrderByCreatedAtDesc(ids)}

\* getPost: the selected row, or no row (undefined).
getPost(id) == IF id \in PostIds THEN <<posts[id]>> ELSE <<>>

\* createPost: INSERT ... RETURNING; the serial key is the next index.
createPost(authorId, section, title, content, createdAt, status) ==
    Append(posts,
           [id |-> Len(posts) + 1, authorId |-> authorId, section |-> section,
            title |-> title, content |-> content, status |-> status,
            deleted |-> FALSE, deletedBy |-> NULL,
            createdAt |-> createdAt, updatedAt |-> createdAt])

deletePost_FlagOnly(id, deletedBy) ==
    [i \in PostIds |->
        IF i = id THEN [posts[i] EXCEPT !.deleted = TRUE]
        ELSE posts[i]]

\* deletePost: UPDATE posts SET deleted = true, deletedBy WHERE id
deletePost(id, deletedBy) ==
    [i \in PostIds |->
        IF i = id THEN [posts[i] EXCEPT !.deleted = TRUE, !.deletedBy = deletedBy]
        ELSE posts[i]]

\* revivePost: UPDATE posts SET deleted = false, deletedBy = null WHERE id
revivePost(id) ==
    [i \in PostIds |->
        IF i = id THEN [posts[i] EXCEPT !.deleted = FALSE, !.deletedBy = NULL]
        ELSE posts[i]]

-----------------------------------------------------------------------------
(* routes module *)

\* A request and its response.  before is the addressed row as it was when
\* the request arrived (no row: <<>>); items is the body of a listing.
Response(op, actor, id, section, arg, code, items) ==
    [op |-> op, actor |-> actor, id |-> id, section |-> section, arg |-> arg,
     code |-> code, items |-> items,
     before |-> IF id \in 1..Len(posts) THEN <<posts[id]>> ELSE <<>>]

\* Status given to a new row.
InitialStatus(section) == IF section = "bug-reports" THEN "pending" ELSE NULL

\* POST /api/posts
postValues_BodyAuthor(validatedData, sessionUserId) ==
    IF validatedData.authorId = NULL
    THEN [validatedData EXCEPT !.authorId = sessionUserId]
    ELSE validatedData

\* { ...validatedData, authorId: req.session.userId }
postValues(validatedData, sessionUserId) ==
    [validatedData EXCEPT !.authorId = sessionUserId]

\* POST /api/posts; the body may carry an authorId, as the client's does.
\* elapsed is the time between the previous insert and this one, which
\* stamps created_at: zero when both fall on one reading of the clock.
CreatePostRoute(actors, sections, bodyAuthorIds, elapsed) ==
    \E actor \in actors, section \in sections, authorId \in bodyAuthorIds,
       tick \in elapsed :
        LET validatedData == [title |-> "t0", content |-> "c0", section |-> section,
                              authorId |-> authorId]
            values == postValues(validatedData, actor)
        IN  /\ Len(posts) < MaxPosts
            /\ now < MaxTime
            /\ IF actor = NoSession
               THEN /\ lastOp' = Response("create", actor, 0, section, authorId, 401, <<>>)
                    /\ UNCHANGED <<users, posts, now, others>>
               ELSE /\ now' = now + tick
                    /\ posts' = createPost(values.authorId, values.section, values.title,
                                           values.content, now + tick,
                                           InitialStatus(values.section))
                    /\ lastOp' = Response("create", actor, 0, section, authorId, 200, <<>>)
                    /\ UNCHANGED <<users, others>>

\* GET /api/posts/:section
ListPostsRoute(actors, sections) ==
    \E actor \in actors, section \in sections :
        /\ IF actor = NoSession
           THEN lastOp' = Response("list", actor, 0, section, NULL, 401, <<>>)
           ELSE \E rows \in getPosts(section, users[actor].role, actor) :
                    lastOp' = Response("list", actor, 0, section, NULL, 200, rows)
        /\ UNCHANGED <<users, posts, now, others>>

\* The rank table re-declared inside DELETE /api/posts/:id.
ROLE_HIERARCHY_delete ==
    [r \in Roles |->
        CASE r = "user"      -> 0
          [] r = "helper"    -> 1
          [] r = "moderator" -> 2
          [] r = "admin"     -> 3
          [] r = "developer" -> 3
          [] r = "owner"     -> 4]

DeleteForbidden_AdminOnly(role) ==
    ROLE_HIERARCHY_delete[role] < ROLE_HIERARCHY_delete["admin"]

DeleteForbidden(role) ==
    ROLE_HIERARCHY_delete[role] < ROLE_HIERARCHY_delete["moderator"]

DeletePostRoute_WriteFirst(actors, ids) ==
    \E actor \in actors, id \in ids :
        IF actor = NoSession
        THEN /\ lastOp' = Response("delete", actor, id, NULL, NULL, 401, <<>>)
             /\ UNCHANGED <<users, posts, now, others>>
        ELSE IF DeleteForbidden(users[actor].role)
        THEN /\ posts' = deletePost(id, actor)
             /\ lastOp' = Response("delete", actor, id, NULL, NULL, 403, <<>>)
             /\ UNCHANGED <<users, now, others>>
        ELSE IF getPost(id) = <<>>
        THEN /\ lastOp' = Response("delete", actor, id, NULL, NULL, 404, <<>>)
             /\ UNCHANGED <<users, posts, now, others>>
        ELSE /\ posts' = deletePost(id, actor)
             /\ lastOp' = Response("delete", actor, id, NULL, NULL, 200, <<>>)
             /\ UNCHANGED <<users, now, others>>

\* DELETE /api/posts/:id
DeletePostRoute(actors, ids) ==
    \E actor \in actors, id \in ids :
        IF actor = NoSession
        THEN /\ lastOp' = Response("delete", actor, id, NULL, NULL, 401, <<>>)
             /\ UNCHANGED <<users, posts, now, others>>
        ELSE IF DeleteForbidden(users[actor].role)
        THEN /\ lastOp' = Response("delete", actor, id, NULL, NULL, 403, <<>>)
             /\ UNCHANGED <<users, posts, now, others>>
        ELSE IF getPost(id) = <<>>
        THEN /\ lastOp' = Response("delete", actor, id, NULL, NULL, 404, <<>>)
             /\ UNCHANGED <<users, posts, now, others>>
        ELSE /\ posts' = deletePost(id, actor)
             /\ lastOp' = Response("delete", actor, id, NULL, NULL, 200, <<>>)
             /\ UNCHANGED <<users, now, others>>

\* The rank table re-declared inside POST /api/posts/:id/revive.
ROLE_HIERARCHY_revive ==
    [r \in Roles |->
        CASE r = "user"      -> 0
          [] r = "helper"    -> 1
          [] r = "moderator" -> 2
          [] r = "admin"     -> 3
          [] r = "developer" -> 3
          [] r = "owner"     -> 4]

ReviveForbidden_ModeratorUp(role) ==
    ROLE_HIERARCHY_revive[role] < ROLE_HIERARCHY_revive["moderator"]

ReviveForbidden(role) ==
    ROLE_HIERARCHY_revive[role] < ROLE_HIERARCHY_revive["admin"]

\* POST /api/posts/:id/revive
RevivePostRoute(actors, ids) ==
    \E actor \in actors, id \in ids :
        IF actor = NoSession
        THEN /\ lastOp' = Response("revive", actor, id, NULL, NULL, 401, <<>>)
             /\ UNCHANGED <<users, posts, now, others>>
        ELSE IF ReviveForbidden(users[actor].role)
        THEN /\ lastOp' = Response("revive", actor, id, NULL, NULL, 403, <<>>)
             /\ UNCHANGED <<users, posts, now, others>>
        ELSE IF getPost(id) = <<>>
        THEN /\ lastOp' = Response("revive", actor, id, NULL, NULL, 404, <<>>)
             /\ UNCHANGED <<users, posts, now, others>>
        ELSE /\ posts' = revivePost(id)
             /\ lastOp' = Response("revive", actor, id, NULL, NULL, 200, <<>>)
             /\ UNCHANGED <<users, now, others>>

\* updatePost: UPDATE posts SET ...updates, updatedAt = new Date() WHERE id.
\* A field absent from updates is NULL here and keeps its value.
updatePost(id, updates, date) ==
    [i \in PostIds |->
        IF i = id
        THEN [posts[i] EXCEPT
                !.title = IF updates.title = NULL THEN @ ELSE updates.title,
                !.content = IF updates.content = NULL THEN @ ELSE updates.content,
                !.updatedAt = date]
        ELSE posts[i]]

\* updatePostStatus: UPDATE posts SET status WHERE id
updatePostStatus(id, status) ==
    [i \in PostIds |->
        IF i = id THEN [posts[i] EXCEPT !.status = status] ELSE posts[i]]

\* Request bodies of PATCH /api/posts/:id: title and content are optional.
EditInputs ==
    {[title |-> "t1", content |-> NULL],
     [title |-> NULL, content |-> "c1"],
     [title |-> "t1", content |-> "c1"],
     [title |-> NULL, content |-> NULL]}

EditForbidden_Anyone(post, actor) == FALSE

EditForbidden(post, actor) == post.authorId # actor

\* PATCH /api/posts/:id
EditPostRoute(actors, ids, inputs) ==
    \E actor \in actors, id \in ids, updates \in inputs :
        IF actor = NoSession
        THEN /\ lastOp' = Response("edit", actor, id, NULL, updates, 401, <<>>)
             /\ UNCHANGED <<users, posts, now, others>>
        ELSE IF getPost(id) = <<>>
        THEN /\ lastOp' = Response("edit", actor, id, NULL, updates, 404, <<>>)
             /\ UNCHANGED <<users, posts, now, others>>
        ELSE IF EditForbidden(getPost(id)[1], actor)
        THEN /\ lastOp' = Response("edit", actor, id, NULL, updates, 403, <<>>)
             /\ UNCHANGED <<users, posts, now, others>>
        ELSE IF updates.title = NULL /\ updates.content = NULL
        THEN /\ lastOp' = Response("edit", actor, id, NULL, updates, 400, <<>>)
             /\ UNCHANGED <<users, posts, now, others>>
        ELSE /\ now < MaxTime
             /\ now' = now + 1
             /\ posts' = updatePost(id, updates, now + 1)
             /\ lastOp' = Response("edit", actor, id, NULL, updates, 200, <<>>)
             /\ UNCHANGED <<users, others>>

\* Request bodies of POST /api/posts/:id/status ("" is a missing status).
StatusInputs == {"fixed", ""}

StatusForbidden_RankOnly(role) ==
    ROLE_HIERARCHY[role] < ROLE_HIERARCHY["developer"]

StatusForbidden(role) == role # "developer" /\ role # "owner"

\* POST /api/posts/:id/status
SetStatusRoute(actors, ids, inputs) ==
    \E actor \in actors, id \in ids, status \in inputs :
        IF actor = NoSession
        THEN /\ lastOp' = Response("status", actor, id, NULL, status, 401, <<>>)
             /\ UNCHANGED <<users, posts, now, others>>
        ELSE IF StatusForbidden(users[actor].role)
        THEN /\ lastOp' = Response("status", actor, id, NULL, status, 403, <<>>)
             /\ UNCHANGED <<users, posts, now, others>>
        ELSE IF status = ""
        THEN /\ lastOp' = Response("status", actor, id, NULL, status, 400, <<>>)
             /\ UNCHANGED <<users, posts, now, others>>
        ELSE /\ posts' = updatePostStatus(id, status)
             /\ lastOp' = Response("status", actor, id, NULL, status, 200, <<>>)
             /\ UNCHANGED <<users, now, others>>

-----------------------------------------------------------------------------
(* storage module: punishments and appeals *)

MaxPunishments == 1
MaxAppeals == 2

\* The comparison that eq() builds is the SQL operator =, which is never
\* true when one side is NULL.
SqlEq(a, b) == a # NULL /\ b # NULL /\ a = b

PunishmentExists(id) == id \in 1..Len(punishments) /\ punishments[id] # {}

\* createPunishment: INSERT ... RETURNING; the serial key is the next index.
createPunishment(userId, warningPoints, issuedBy) ==
    Append(punishments,
           {[id |-> Len(punishments) + 1, userId |-> userId,
             warningPoints |-> warningPoints, issuedBy |-> issuedBy]})

\* revokePunishment: DELETE FROM punishments WHERE id
revokePunishment(id) ==
    [i \in 1..Len(punishments) |-> IF i = id THEN {} ELSE punishments[i]]

\* Decision column of a new appeal.
InitialApproved == NULL

\* Whether the table accepts a row whose punishmentId resolves to nothing
\* is decided by the table definition: both answers are admitted.
InsertAppealOutcomes(punishmentId) ==
    IF PunishmentExists(punishmentId) THEN {"inserted"} ELSE {"inserted", "rejected"}

\* createAppeal: INSERT ... RETURNING
createAppeal(userId, punishmentId, reason, createdAt) ==
    Append(appeals,
           [id |-> Len(appeals) + 1, userId |-> userId, punishmentId |-> punishmentId,
            reason |-> reason, approved |-> InitialApproved, createdAt |-> createdAt])

\* getAppeals: SELECT ... WHERE approved = NULL ORDER BY created_at DESC;
\* the possible result lists.
getAppeals ==
    LET ids == {i \in 1..Len(appeals) : SqlEq(appeals[i].approved, NULL)}
        n == Cardinality(ids)
    IN  {[k \in 1..n |-> appeals[s[k]]] :
            s \in {t \in [1..n -> ids] :
                      /\ \A i, j \in 1..n : i < j => t[i] # t[j]
                      /\ \A i, j \in 1..n :
                           i < j => appeals[t[i]].createdAt >= appeals[t[j]].createdAt}}

getAppeal(id) == IF id \in 1..Len(appeals) THEN <<appeals[id]>> ELSE <<>>

-----------------------------------------------------------------------------
(* routes module: punishments and appeals *)

\* A request on a table other than posts and its response.
Reply(op, actor, id, arg, code, items, before) ==
    [op |-> op, actor |-> actor, id |-> id, section |-> NULL, arg |-> arg,
     code |-> code, items |-> items, before |-> before]

\* storage.createPunishment, called by a moderation actor (no route calls it).
CreatePunishmentCall(issuers, targets) ==
    \E issuer \in issuers, target \in targets :
        /\ Len(punishments) < MaxPunishments
        /\ punishments' = createPunishment(target, 1, issuer)
        /\ lastOp' = Reply("punish", issuer, Len(punishments) + 1, target, 0, <<>>, <<>>)
        /\ UNCHANGED <<system, users, posts, now, messages, appeals, counters, calls>>

\* POST /api/appeals
\* { ...data, userId: req.session.userId }
appealValues(data, sessionUserId) == [data EXCEPT !.userId = sessionUserId]

\* POST /api/appeals; the body may carry a userId.
CreateAppealRoute(actors, punishmentIds, bodyUserIds) ==
    \E actor \in actors, punishmentId \in punishmentIds, userId \in bodyUserIds :
        LET data == [punishmentId |-> punishmentId, reason |-> "r0", userId |-> userId]
            values == appealValues(data, actor)
        IN  /\ Len(appeals) < MaxAppeals
            /\ now < MaxTime
            /\ IF actor = NoSession
               THEN /\ lastOp' = Reply("appeal", actor, 0, data, 401, <<>>, <<>>)
                    /\ UNCHANGED <<users, posts, now, others>>
               ELSE \E outcome \in InsertAppealOutcomes(punishmentId) :
                        IF outcome = "rejected"
                        THEN /\ lastOp' = Reply("appeal", actor, 0, data, 400, <<>>, <<>>)
                             /\ UNCHANGED <<users, posts, now, others>>
                        ELSE /\ now' = now + 1
                             /\ appeals' = createAppeal(values.userId, values.punishmentId,
                                                        values.reason, now + 1)
                             /\ lastOp' = Reply("appeal", actor, Len(appeals) + 1, data,
                                                200, <<>>, <<>>)
                             /\ UNCHANGED <<system, users, posts, messages, punishments,
                                            counters, calls>>

ModerationForbidden_ByRank(role) ==
    ROLE_HIERARCHY[role] < ROLE_HIERARCHY["moderator"]

\* The role test of the appeals and punishments routes.
ModerationForbidden(role) ==
    role # "owner" /\ role # "admin" /\ role # "moderator"

\* GET /api/appeals
ListAppealsRoute(actors) ==
    \E actor \in actors :
        /\ IF actor = NoSession
           THEN lastOp' = Reply("appeals", actor, 0, NULL, 401, <<>>, <<>>)
           ELSE IF ModerationForbidden(users[actor].role)
           THEN lastOp' = Reply("appeals", actor, 0, NULL, 403, <<>>, <<>>)
           ELSE \E rows \in getAppeals :
                    lastOp' = Reply("appeals", actor, 0, NULL, 200, rows, <<>>)
        /\ UNCHANGED <<users, posts, now, others>>

\* DELETE /api/punishments/:id
RevokePunishmentRoute(actors, ids) ==
    \E actor \in actors, id \in ids :
        LET before == IF PunishmentExists(id) THEN <<punishments[id]>> ELSE <<>>
        IN  IF actor = NoSession
            THEN /\ lastOp' = Reply("revoke", actor, id, NULL, 401, <<>>, before)
                 /\ UNCHANGED <<users, posts, now, others>>
            ELSE IF ModerationForbidden(users[actor].role)
            THEN /\ lastOp' = Reply("revoke", actor, id, NULL, 403, <<>>, before)
                 /\ UNCHANGED <<users, posts, now, others>>
            ELSE /\ punishments' = revokePunishment(id)
                 /\ lastOp' = Reply("revoke", actor, id, NULL, 200, <<>>, before)
                 /\ UNCHANGED <<system, users, posts, now, messages, appeals, counters, calls>>

\* POST /api/appeals/:id/approve
ApproveAppealRoute(actors, ids) ==
    \E actor \in actors, id \in ids :
        /\ IF actor = NoSession
           THEN lastOp' = Reply("approve", actor, id, NULL, 401, <<>>, getAppeal(id))
           ELSE IF ModerationForbidden(users[actor].role)
           THEN lastOp' = Reply("approve", actor, id, NULL, 403, <<>>, getAppeal(id))
           ELSE lastOp' = Reply("approve", actor, id, NULL, 200, <<>>, getAppeal(id))
        /\ UNCHANGED <<users, posts, now, others>>

\* POST /api/appeals/:id/reject
RejectAppealRoute(actors, ids) ==
    \E actor \in actors, id \in ids :
        /\ IF actor = NoSession
           THEN lastOp' = Reply("reject", actor, id, NULL, 401, <<>>, getAppeal(id))
           ELSE IF ModerationForbidden(users[actor].role)
           THEN lastOp' = Reply("reject", actor, id, NULL, 403, <<>>, getAppeal(id))
           ELSE lastOp' = Reply("reject", actor, id, NULL, 200, <<>>, getAppeal(id))
        /\ UNCHANGED <<users, posts, now, others>>

-----------------------------------------------------------------------------
(* storage module: messages and reputation *)

MaxMessages == 2
MaxCalls == 2

\* getUserByUsername: the selected account, or no row (undefined).
getUserByUsername(username) ==
    LET ids == {a \in DOMAIN users : users[a].username = username}
    IN  IF ids = {} THEN <<>> ELSE <<CHOOSE a \in ids : TRUE>>

\* createMessage: INSERT ... RETURNING
createMessage(senderId, recipientId, content, createdAt) ==
    Append(messages,
           [id |-> Len(messages) + 1, senderId |-> senderId,
            recipientId |-> recipientId, content |-> content, createdAt |-> createdAt])

\* getMessages: SELECT ... WHERE recipientId = userId ORDER BY created_at
\* DESC; the possible result lists.
getMessages(userId) ==
    LET ids == {i \in 1..Len(messages) : messages[i].recipientId = userId}
        n == Cardinality(ids)
    IN  {[k \in 1..n |-> messages[s[k]]] :
            s \in {t \in [1..n -> ids] :
                      /\ \A i, j \in 1..n : i < j => t[i] # t[j]
                      /\ \A i, j \in 1..n :
                           i < j => messages[t[i]].createdAt >= messages[t[j]].createdAt}}

Tiers == {"new-member", "member", "climber", "qubed", "epic-qube", "unique-qube",
          "legendary-qube"}

newBadge_Above(user) ==
    LET totalCount == user.postCount + user.messageCount
    IN  IF totalCount > 300 THEN "legendary-qube"
        ELSE IF totalCount > 225 THEN "unique-qube"
        ELSE IF totalCount > 150 THEN "epic-qube"
        ELSE IF totalCount > 80 THEN "qubed"
        ELSE IF totalCount > 35 THEN "climber"
        ELSE IF totalCount > 10 THEN "member"
        ELSE "new-member"

\* updateUserBadge: the tier computed from the row that was read.
newBadge(user) ==
    LET totalCount == user.postCount + user.messageCount
    IN  IF totalCount >= 300 THEN "legendary-qube"
        ELSE IF totalCount >= 225 THEN "unique-qube"
        ELSE IF totalCount >= 150 THEN "epic-qube"
        ELSE IF totalCount >= 80 THEN "qubed"
        ELSE IF totalCount >= 35 THEN "climber"
        ELSE IF totalCount >= 10 THEN "member"
        ELSE "new-member"

\* updateUserBadge: read the row, compute the tier, write it if it differs.
updateUserBadge(table, userId) ==
    LET user == table[userId]
    IN  IF newBadge(user) # user.badge
        THEN [table EXCEPT ![userId].badge = newBadge(user)]
        ELSE table

\* The column object users.postCount / users.messageCount of the schema.
Column == [type |-> "object", value |-> 0]

\* JavaScript's binary +: two numbers are added; with an object operand both
\* sides are converted to strings and concatenated.
JsPlus(left, right) ==
    IF left.type = "number"
    THEN [type |-> "number", value |-> left.value + right]
    ELSE [type |-> "string", value |-> 0]

\* An integer column takes a number as parameter and refuses a string that
\* is not the text of a number.
IntegerColumnAccepts(v) == v.type = "number"

\* storage.updateUserBadge
UpdateUserBadgeCall(userIds) ==
    \E userId \in userIds :
        /\ counters' = updateUserBadge(counters, userId)
        /\ lastOp' = Reply("updateUserBadge", userId, 0, NULL, 0, <<>>, <<counters[userId]>>)
        /\ UNCHANGED <<system, users, posts, now, messages, punishments, appeals, calls>>

\* storage.incrementPostCount: the SET value users.postCount + 1 is computed
\* by JavaScript before the statement is built.  When the database refuses
\* it the call throws and updateUserBadge is not reached.
IncrementPostCountCall(userIds) ==
    \E userId \in userIds :
        LET value == JsPlus(Column, 1)
        IN  /\ calls[userId].post < MaxCalls
            /\ calls' = [calls EXCEPT ![userId].post = @ + 1]
            /\ IF IntegerColumnAccepts(value)
               THEN /\ counters' = updateUserBadge(
                                       [counters EXCEPT ![userId].postCount = value.value],
                                       userId)
                    /\ lastOp' = Reply("incrementPostCount", userId, 0, "done", 0, <<>>,
                                       <<counters[userId]>>)
               ELSE /\ counters' = counters
                    /\ lastOp' = Reply("incrementPostCount", userId, 0, "thrown", 0, <<>>,
                                       <<counters[userId]>>)
            /\ UNCHANGED <<system, users, posts, now, messages, punishments, appeals>>

\* storage.incrementMessageCount
IncrementMessageCountCall(userIds) ==
    \E userId \in userIds :
        LET value == JsPlus(Column, 1)
        IN  /\ calls[userId].message < MaxCalls
            /\ calls' = [calls EXCEPT ![userId].message = @ + 1]
            /\ IF IntegerColumnAccepts(value)
               THEN /\ counters' = updateUserBadge(
                                       [counters EXCEPT ![userId].messageCount = value.value],
                                       userId)
                    /\ lastOp' = Reply("incrementMessageCount", userId, 0, "done", 0, <<>>,
                                       <<counters[userId]>>)
               ELSE /\ counters' = counters
                    /\ lastOp' = Reply("incrementMessageCount", userId, 0, "thrown", 0, <<>>,
                                       <<counters[userId]>>)
            /\ UNCHANGED <<system, users, posts, now, messages, punishments, appeals>>

-----------------------------------------------------------------------------
(* routes module: messages *)

MaxContentLength == 2000

\* Request bodies: recipientUsername absent, of an account, or of nobody;
\* content absent, a string of some length, or a number.
RecipientInputs == {"", "alice", "hank", "nobody"}

ContentInputs ==
    {[type |-> "string", length |-> 0], [type |-> "string", length |-> 1],
     [type |-> "string", length |-> MaxContentLength],
     [type |-> "string", length |-> MaxContentLength + 1],
     [type |-> "number", length |-> 0]}

\* !content: the empty string (an absent field likewise).
ContentMissing(content) == content.type = "string" /\ content.length = 0

ContentOutOfRange_NoUpperLimit(content) ==
    content.type # "string" \/ content.length = 0

\* typeof content !== 'string' || content.length === 0 || content.length > 2000
ContentOutOfRange(content) ==
    \/ content.type # "string"
    \/ content.length = 0
    \/ content.length > MaxContentLength

\* POST /api/messages
SendMessageRoute(actors, recipients, contents) ==
    \E actor \in actors, recipientUsername \in recipients, content \in contents :
        LET body == [recipientUsername |-> recipientUsername, content |-> content]
            recipient == getUserByUsername(recipientUsername)
        IN  /\ Len(messages) < MaxMessages
            /\ now < MaxTime
            /\ IF actor = NoSession
               THEN /\ lastOp' = Reply("message", actor, 0, body, 401, <<>>, <<>>)
                    /\ UNCHANGED <<users, posts, now, others>>
               ELSE IF recipientUsername = "" \/ ContentMissing(content)
               THEN /\ lastOp' = Reply("message", actor, 0, body, 400, <<>>, <<>>)
                    /\ UNCHANGED <<users, posts, now, others>>
               ELSE IF ContentOutOfRange(content)
               THEN /\ lastOp' = Reply("message", actor, 0, body, 400, <<>>, <<>>)
                    /\ UNCHANGED <<users, posts, now, others>>
               ELSE IF recipient = <<>>
               THEN /\ lastOp' = Reply("message", actor, 0, body, 404, <<>>, <<>>)
                    /\ UNCHANGED <<users, posts, now, others>>
               ELSE IF recipient[1] = actor
               THEN /\ lastOp' = Reply("message", actor, 0, body, 400, <<>>, <<>>)
                    /\ UNCHANGED <<users, posts, now, others>>
               ELSE /\ now' = now + 1
                    /\ messages' = createMessage(actor, recipient[1], content, now + 1)
                    /\ lastOp' = Reply("message", actor, Len(messages) + 1, body,
                                       200, <<>>, <<>>)
                    /\ UNCHANGED <<system, users, posts, punishments, appeals, counters,
                                   calls>>

\* GET /api/messages
ListMessagesRoute(actors) ==
    \E actor \in actors :
        /\ IF actor = NoSession
           THEN lastOp' = Reply("messages", actor, 0, NULL, 401, <<>>, <<>>)
           ELSE \E rows \in getMessages(actor) :
                    lastOp' = Reply("messages", actor, 0, NULL, 200, rows, <<>>)
        /\ UNCHANGED <<users, posts, now, others>>

-----------------------------------------------------------------------------
(* discord-bot module *)

MaxClients == 2

\* process.env.DISCORD_BOT_TOKEN: absent or configured.
TokenInputs == {NULL, "token"}

\* Clients that were constructed and are neither destroyed nor failed.
LiveClients == (discord.loggingIn \cup discord.connected) \ discord.destroyed

\* initializeDiscordBot, up to the await of login
InitializeDiscordBot(tokens) ==
    \E token \in tokens :
        /\ discord.created < MaxClients
        /\ IF discord.isConnecting \/ discord.discordClient # <<>>
           THEN /\ lastOp' = Reply("initialize", NoSession, 0, token, 0, <<>>, <<>>)
                /\ UNCHANGED discord
           ELSE IF token = NULL
           THEN /\ lastOp' = Reply("initialize", NoSession, 0, token, 0, <<>>, <<>>)
                /\ UNCHANGED discord
           ELSE LET client == discord.created + 1
                IN  /\ discord' = [discord EXCEPT !.isConnecting = TRUE,
                                                  !.discordClient = <<client>>,
                                                  !.created = client,
                                                  !.loggingIn = @ \cup {client}]
                    /\ lastOp' = Reply("initialize", NoSession, client, token, 0,
                                       <<>>, <<>>)
        /\ UNCHANGED <<signup, users, posts, now, messages, punishments, appeals,
                       counters, calls>>

\* initializeDiscordBot, after the await: login resolved, or rejected and
\* caught.
LoginSettles ==
    \E client \in discord.loggingIn, resolved \in BOOLEAN :
        /\ IF resolved
           THEN discord' = [discord EXCEPT !.loggingIn = @ \ {client},
                                           !.connected = @ \cup {client}]
           ELSE discord' = [discord EXCEPT !.loggingIn = @ \ {client},
                                           !.isConnecting = FALSE,
                                           !.discordClient = <<>>]
        /\ lastOp' = Reply("login", NoSession, client,
                           IF resolved THEN "resolved" ELSE "rejected", 0, <<>>, <<>>)
        /\ UNCHANGED <<signup, users, posts, now, messages, punishments, appeals,
                       counters, calls>>

\* shutdownDiscordBot, up to the await of destroy
ShutdownDiscordBot ==
    /\ IF discord.discordClient # <<>>
       THEN /\ discord' = [discord EXCEPT !.destroying = @ \cup {discord.discordClient[1]}]
            /\ lastOp' = Reply("shutdown", NoSession, discord.discordClient[1], NULL, 0,
                               <<>>, <<>>)
       ELSE /\ lastOp' = Reply("shutdown", NoSession, 0, NULL, 0, <<>>, <<>>)
            /\ UNCHANGED discord
    /\ UNCHANGED <<signup, users, posts, now, messages, punishments, appeals,
                   counters, calls>>

\* shutdownDiscordBot, after the await: destroy resolved, or rejected and
\* caught.
DestroySettles ==
    \E client \in discord.destroying, resolved \in BOOLEAN :
        /\ IF resolved
           THEN discord' = [discord EXCEPT !.destroying = @ \ {client},
                                           !.destroyed = @ \cup {client},
                                           !.discordClient = <<>>]
           ELSE discord' = [discord EXCEPT !.destroying = @ \ {client}]
        /\ lastOp' = Reply("destroy", NoSession, client,
                           IF resolved THEN "resolved" ELSE "rejected", 0, <<>>, <<>>)
        /\ UNCHANGED <<signup, users, posts, now, messages, punishments, appeals,
                       counters, calls>>

\* verifyUserInGuild: false without a client; with one, whether a guild
\* fetch finds the member (a failed fetch counts as not found).
GuildMembers == {"member"}

verifyUserInGuild(userId) ==
    IF discord.discordClient = <<>>
    THEN {FALSE}
    ELSE IF userId \in GuildMembers THEN {TRUE, FALSE} ELSE {FALSE}

-----------------------------------------------------------------------------
(* Accounts: signup and profile routes *)

MaxSignups == 2

\* Ids of the rows inserted by signup, in serial order.
SignupIds == <<"u1", "u2", "u3", "u4">>

\* Request bodies of signup: a username that is taken at start or free, a
\* role field absent or set, a discordUserId absent, of a guild member or
\* of a stranger.
UsernameInputs == {"alice", "zoe"}
BodyRoleInputs == {NULL, "owner"}
DiscordUserIdInputs == {NULL, "member", "stranger"}

\* users.username is declared unique.
UsernameUnique(table, username) ==
    \A a \in DOMAIN table : table[a].username # username

createUserValues_BodyRole(validatedData) ==
    [username |-> validatedData.username,
     role |-> IF validatedData.role = NULL THEN "user" ELSE validatedData.role]

\* { ...validatedData, password, userId, role: 'user' }
createUserValues(validatedData) ==
    [username |-> validatedData.username, role |-> "user"]

createUser_Unconstrained(insertUser) ==
    LET id == SignupIds[Cardinality(DOMAIN users \ Accounts) + 1]
    IN  <<[a \in DOMAIN users \cup {id} |->
              IF a = id
              THEN [role |-> insertUser.role, username |-> insertUser.username,
                    avatar |-> NULL, banner |-> NULL]
              ELSE users[a]], id>>

\* createUser: INSERT ... RETURNING; <<>> when the insert is refused, else
\* the new table and the id of the new row.
createUser(insertUser) ==
    IF ~UsernameUnique(users, insertUser.username)
    THEN <<>>
    ELSE LET id == SignupIds[Cardinality(DOMAIN users \ Accounts) + 1]
         IN  <<[a \in DOMAIN users \cup {id} |->
                   IF a = id
                   THEN [role |-> insertUser.role, username |-> insertUser.username,
                         avatar |-> NULL, banner |-> NULL]
                   ELSE users[a]], id>>

\* updateUser: UPDATE users SET updates WHERE id
updateUser(id, updates) ==
    [users EXCEPT ![id] =
        [f \in DOMAIN @ |-> IF f \in DOMAIN updates THEN updates[f] ELSE @[f]]]

\* POST /api/signup, up to the await of bcrypt.hash: the body is parsed
\* (the schema may refuse it), the username looked up, the guild asked.
SignupRequest(usernames, bodyRoles, discordUserIds) ==
    \E username \in usernames, role \in bodyRoles, discordUserId \in discordUserIds,
       parsed \in BOOLEAN :
        LET body == [username |-> username, role |-> role,
                     discordUserId |-> discordUserId]
            n == signup.started + 1
            refused == Reply("signup", NoSession, n, body, 400, <<>>, <<>>)
        IN  /\ signup.started < MaxSignups
            /\ IF ~parsed
               THEN /\ lastOp' = refused
                    /\ signup' = [signup EXCEPT !.started = n]
               ELSE IF getUserByUsername(username) # <<>>
               THEN /\ lastOp' = refused
                    /\ signup' = [signup EXCEPT !.started = n]
               ELSE \E isInGuild \in (IF discordUserId = NULL
                                      THEN {TRUE}
                                      ELSE verifyUserInGuild(discordUserId)) :
                        IF ~isInGuild
                        THEN /\ lastOp' = refused
                             /\ signup' = [signup EXCEPT !.started = n]
                        ELSE /\ lastOp' = Reply("signupHash", NoSession, n, body, 0,
                                                <<>>, <<>>)
                             /\ signup' = [started |-> n,
                                           pending |-> signup.pending
                                                         \cup {[n |-> n, body |-> body]}]
            /\ UNCHANGED <<discord, users, posts, now, messages, punishments, appeals,
                           counters, calls>>

\* POST /api/signup, from createUser on: the row is inserted and the
\* session opened, or the insert throws and the catch answers 400.
SignupInsert ==
    \E request \in signup.pending :
        LET created == createUser(createUserValues(request.body))
        IN  /\ signup' = [signup EXCEPT !.pending = @ \ {request}]
            /\ IF created = <<>>
               THEN /\ lastOp' = Reply("signup", NoSession, request.n, request.body, 400,
                                       <<>>, <<request>>)
                    /\ UNCHANGED users
               ELSE /\ users' = created[1]
                    /\ lastOp' = Reply("signup", NoSession, request.n, request.body, 200,
                                       <<created[2]>>, <<request>>)
            /\ UNCHANGED <<discord, posts, now, messages, punishments, appeals,
                           counters, calls>>

\* Request bodies of the profile routes: the image absent, given, or not a
\* string; a role field the routes do not read.
ImageInputs ==
    {[type |-> "string", value |-> ""], [type |-> "string", value |-> "image"],
     [type |-> "number", value |-> "7"]}

\* !image || typeof image !== 'string'
ImageInvalid(image) == image.value = "" \/ image.type # "string"

\* POST /api/user/avatar
UpdateAvatarRoute(actors, images, bodyRoles) ==
    \E actor \in actors, avatar \in images, role \in bodyRoles :
        LET body == [avatar |-> avatar, role |-> role]
        IN  /\ IF actor = NoSession
               THEN /\ lastOp' = Reply("avatar", actor, 0, body, 401, <<>>, <<>>)
                    /\ UNCHANGED users
               ELSE IF ImageInvalid(avatar)
               THEN /\ lastOp' = Reply("avatar", actor, 0, body, 400, <<>>, <<>>)
                    /\ UNCHANGED users
               ELSE /\ users' = updateUser(actor, [avatar |-> avatar.value])
                    /\ lastOp' = Reply("avatar", actor, 0, body, 200, <<>>, <<>>)
            /\ UNCHANGED <<system, posts, now, messages, punishments, appeals,
                           counters, calls>>

\* POST /api/user/banner
UpdateBannerRoute(actors, images, bodyRoles) ==
    \E actor \in actors, banner \in images, role \in bodyRoles :
        LET body == [banner |-> banner, role |-> role]
        IN  /\ IF actor = NoSession
               THEN /\ lastOp' = Reply("banner", actor, 0, body, 401, <<>>, <<>>)
                    /\ UNCHANGED users
               ELSE IF ImageInvalid(banner)
               THEN /\ lastOp' = Reply("banner", actor, 0, body, 400, <<>>, <<>>)
                    /\ UNCHANGED users
               ELSE /\ users' = updateUser(actor, [banner |-> banner.value])
                    /\ lastOp' = Reply("banner", actor, 0, body, 200, <<>>, <<>>)
            /\ UNCHANGED <<system, posts, now, messages, punishments, appeals,
                           counters, calls>>

-----------------------------------------------------------------------------
(* client: section page and sidebar *)

\* The table as the section page declares it.
ROLE_HIERARCHY_section ==
    [r \in Roles |->
        CASE r = "user"      -> 0
          [] r = "helper"    -> 1
          [] r = "moderator" -> 2
          [] r = "admin"     -> 3
          [] r = "developer" -> 3
          [] r = "owner"     -> 4]

\* The table as the sidebar declares it.
ROLE_HIERARCHY_sidebar ==
    [r \in Roles |->
        CASE r = "user"      -> 0
          [] r = "helper"    -> 1
          [] r = "moderator" -> 2
          [] r = "admin"     -> 3
          [] r = "developer" -> 3
          [] r = "owner"     -> 4]

canViewAllInSection_RankOnly(section, userRole) ==
    IF section = "player-reports"
    THEN ROLE_HIERARCHY_section[userRole] >= ROLE_HIERARCHY_section["moderator"]
    ELSE IF section = "bug-reports"
    THEN ROLE_HIERARCHY_section[userRole] >= ROLE_HIERARCHY_section["developer"]
    ELSE IF section = "support-tickets"
    THEN ROLE_HIERARCHY_section[userRole] >= ROLE_HIERARCHY_section["helper"]
    ELSE TRUE

\* Section page: canViewAllInSection
canViewAllInSection(section, userRole) ==
    IF section = "player-reports"
    THEN ROLE_HIERARCHY_section[userRole] >= ROLE_HIERARCHY_section["moderator"]
    ELSE IF section = "bug-reports"
    THEN userRole = "developer" \/ userRole = "owner"
    ELSE IF section = "support-tickets"
    THEN ROLE_HIERARCHY_section[userRole] >= ROLE_HIERARCHY_section["helper"]
    ELSE TRUE

\* Section page: the report-section filter of visiblePosts
pageShows(post, section, userRole, userId) ==
    IF section \in {"player-reports", "bug-reports", "support-tickets"}
    THEN canViewAllInSection(section, userRole) \/ post.authorId = userId
    ELSE TRUE

-----------------------------------------------------------------------------
(* Specifications *)

\* Badge column of a new account.
InitialBadge == "new-member"

\* The accounts that exist at start: one per role, none made by signup.
InitialUsers ==
    [a \in Accounts |->
        [role |-> AccountRole[a], username |-> a, avatar |-> NULL, banner |-> NULL]]

\* No signup request made yet.
NoSignups == [started |-> 0, pending |-> {}]

\* The discord-bot module as loaded: no client, not connecting.
NoDiscord ==
    [discordClient |-> <<>>, isConnecting |-> FALSE, created |-> 0,
     loggingIn |-> {}, connected |-> {}, destroying |-> {}, destroyed |-> {}]

\* No increment call made yet.
NoCalls == [a \in Accounts |-> [post |-> 0, message |-> 0]]

Init ==
    /\ users = InitialUsers
    /\ posts = <<>>
    /\ now = 0
    /\ lastOp = Response("none", NoSession, 0, NULL, NULL, 0, <<>>)
    /\ messages = <<>>
    /\ punishments = <<>>
    /\ appeals = <<>>
    /\ counters = [a \in Accounts |->
                      [postCount |-> 0, messageCount |-> 0, badge |-> InitialBadge]]
    /\ calls = NoCalls
    /\ signup = NoSignups
    /\ discord = NoDiscord

\* Request ids: the existing rows and one id that resolves to nothing.
RequestIds == 1..(MaxPosts + 1)

VisSections == {"general", "player-reports", "bug-reports", "support-tickets", "dev-panel"}

\* Listing: posts by a user and a helper in every kind of section, deleted
\* by the moderator and restored by the admin, listed by every session.
NextVis ==
    \/ CreatePostRoute({"alice", "hank"}, VisSections \ DEV_SECTIONS, {NULL}, {1})
    \/ DeletePostRoute({"mona"}, RequestIds)
    \/ RevivePostRoute({"adam"}, RequestIds)
    \/ ListPostsRoute(Sessions, VisSections)

SpecVis == Init /\ [][NextVis]_vars

\* Delete and restore: every session against every request id.
NextDelete ==
    \/ CreatePostRoute({"alice"}, {"general"}, {NULL}, {1})
    \/ DeletePostRoute(Sessions, RequestIds)
    \/ RevivePostRoute(Sessions, RequestIds)

SpecDelete == Init /\ [][NextDelete]_vars

\* Edit: two authors, the owner and an anonymous caller edit rows that the
\* moderator deletes and the admin restores.
NextEdit ==
    \/ CreatePostRoute({"alice", "hank"}, {"general"}, {NULL}, {1})
    \/ DeletePostRoute({"mona"}, RequestIds)
    \/ RevivePostRoute({"adam"}, RequestIds)
    \/ EditPostRoute({NoSession, "alice", "hank", "olivia"}, RequestIds, EditInputs)

SpecEdit == Init /\ [][NextEdit]_vars

\* Status: every session sets the status of rows in a report section and in
\* an open section, active or deleted.
NextStatus ==
    \/ CreatePostRoute({"alice"}, {"bug-reports", "general"}, {NULL}, {1})
    \/ DeletePostRoute({"mona"}, RequestIds)
    \/ SetStatusRoute(Sessions, RequestIds, StatusInputs)

SpecStatus == Init /\ [][NextStatus]_vars

\* Status values: the three values of the status column, one value outside
\* them and the empty body, sent by the developer, the owner and a user.
StatusValues == {"pending", "fixed", "invalid", "wontfix", ""}

NextStatusValue ==
    \/ CreatePostRoute({"alice"}, {"bug-reports"}, {NULL}, {1})
    \/ SetStatusRoute({"alice", "dana", "olivia"}, RequestIds, StatusValues)

SpecStatusValue == Init /\ [][NextStatusValue]_vars

\* Create: every session posts into every kind of section.
NextCreate ==
    \/ CreatePostRoute(Sessions, VisSections, {NULL}, {1})
    \/ ListPostsRoute({"dana"}, DEV_SECTIONS)

SpecCreate == Init /\ [][NextCreate]_vars

\* Appeals: a punishment is issued to alice and possibly revoked; alice and
\* an anonymous caller appeal an existing and a missing punishment id; every
\* session lists and decides.
AppealIds == 1..(MaxAppeals + 1)
PunishmentIds == 1..(MaxPunishments + 1)

NextAppeals ==
    \/ CreatePunishmentCall({"mona"}, {"alice"})
    \/ CreateAppealRoute({NoSession, "alice"}, PunishmentIds, {NULL})
    \/ ListAppealsRoute(Sessions)
    \/ RevokePunishmentRoute(Sessions, PunishmentIds)
    \/ ApproveAppealRoute(Sessions, AppealIds)
    \/ RejectAppealRoute(Sessions, AppealIds)

SpecAppeals == Init /\ [][NextAppeals]_vars

\* Activity: a user and a helper post and send each other messages.
NextActivity ==
    \/ CreatePostRoute({"alice", "hank"}, {"general"}, {NULL}, {1})
    \/ SendMessageRoute({NoSession, "alice", "hank"}, RecipientInputs, ContentInputs)
    \/ ListMessagesRoute({NoSession, "alice", "hank"})

SpecActivity == Init /\ [][NextActivity]_vars

\* Counter increments for two users, in every order.
NextCounters ==
    \/ IncrementPostCountCall({"alice", "hank"})
    \/ IncrementMessageCountCall({"alice", "hank"})

SpecCounters == Init /\ [][NextCounters]_vars

\* Badge: updateUserBadge on rows whose counters stand on, just below and
\* just above every threshold, with every stored badge.
PostCountInputs == {0, 9, 10, 34, 35, 79, 80, 149, 150, 224, 225, 299, 300, 301}
MessageCountInputs == {0, 1}

InitBadge ==
    /\ users = InitialUsers
    /\ posts = <<>>
    /\ now = 0
    /\ lastOp = Response("none", NoSession, 0, NULL, NULL, 0, <<>>)
    /\ messages = <<>>
    /\ punishments = <<>>
    /\ appeals = <<>>
    /\ \E postCount \in PostCountInputs, messageCount \in MessageCountInputs,
          badge \in Tiers \cup {NULL} :
           counters = [a \in Accounts |->
                          IF a = "alice"
                          THEN [postCount |-> postCount, messageCount |-> messageCount,
                                badge |-> badge]
                          ELSE [postCount |-> 0, messageCount |-> 0, badge |-> InitialBadge]]
    /\ calls = NoCalls
    /\ signup = NoSignups
    /\ discord = NoDiscord

NextBadge == UpdateUserBadgeCall({"alice"})

SpecBadge == InitBadge /\ [][NextBadge]_vars

\* Content operations: the author, the staff and an anonymous caller edit,
\* delete, restore and tag existing and missing rows.
NextContent ==
    \/ CreatePostRoute({"alice"}, {"general"}, {NULL}, {1})
    \/ EditPostRoute({NoSession, "alice", "mona"}, RequestIds,
                     {[title |-> "t1", content |-> NULL], [title |-> NULL, content |-> NULL]})
    \/ DeletePostRoute({NoSession, "alice", "mona"}, RequestIds)
    \/ RevivePostRoute({NoSession, "mona", "adam"}, RequestIds)
    \/ SetStatusRoute({NoSession, "mona", "dana"}, RequestIds, StatusInputs)

SpecContent == Init /\ [][NextContent]_vars

NextDiscord ==
    \/ InitializeDiscordBot(TokenInputs)
    \/ LoginSettles
    \/ ShutdownDiscordBot
    \/ DestroySettles

SpecDiscord == Init /\ [][NextDiscord]_vars

\* The sessions that exist: none, and that of the first account made by
\* signup.
ProfileActors == {NoSession} \cup ({"u1"} \cap DOMAIN users)

NextSignup ==
    \/ SignupRequest(UsernameInputs, BodyRoleInputs, DiscordUserIdInputs)
    \/ SignupInsert
    \/ UpdateAvatarRoute(ProfileActors, ImageInputs, {"owner"})
    \/ UpdateBannerRoute(ProfileActors, {[type |-> "string", value |-> "image"]}, {NULL})
    \/ InitializeDiscordBot({"token"})

SpecSignup == Init /\ [][NextSignup]_vars

\* authorId and userId as a body may carry them: absent, the caller's own,
\* or another account's.
BodyUserIdInputs == {NULL, "alice", "mona"}

NextAuthor ==
    \/ CreatePostRoute({NoSession, "alice", "hank"}, {"general"}, BodyUserIdInputs, {1})
    \/ CreatePunishmentCall({"mona"}, {"alice"})
    \/ CreateAppealRoute({NoSession, "alice", "hank"}, PunishmentIds, BodyUserIdInputs)

SpecAuthor == Init /\ [][NextAuthor]_vars

NextOrder ==
    \/ CreatePostRoute({"alice", "hank"}, {"general", "off-topic"}, {NULL}, {0, 1})
    \/ ListPostsRoute({"alice"}, {"general", "off-topic"})

SpecOrder == Init /\ [][NextOrder]_vars

-----------------------------------------------------------------------------
(* Listing *)

ListedIds == {lastOp.items[k].id : k \in 1..Len(lastOp.items)}

IsListing == lastOp.op = "list" /\ lastOp.actor # NoSession

\* C1: listing the capability-gated section dev-panel with a role that lacks
\* the dev-panel capability is answered AuthorizationDenied (403) and returns
\* no list.
C1_DevPanelListDenied ==
    (/\ IsListing
     /\ lastOp.section = "dev-panel"
     /\ ~canAccessSection(users[lastOp.actor].role, "dev-panel"))
        => (lastOp.code = 403 /\ lastOp.items = <<>>)

\* C2: a listing for a viewer of rank below admin contains no soft-deleted
\* item, and a listing for a viewer of rank admin or above contains every
\* soft-deleted item of the section, with its deleted flag set.
C2_DeletedOnlyForAdmins ==
    (IsListing /\ lastOp.code = 200) =>
        IF ROLE_HIERARCHY[users[lastOp.actor].role] < ROLE_HIERARCHY["admin"]
        THEN \A k \in 1..Len(lastOp.items) : ~lastOp.items[k].deleted
        ELSE \A i \in PostIds :
                (posts[i].section = lastOp.section /\ posts[i].deleted)
                    => \E k \in 1..Len(lastOp.items) : lastOp.items[k] = posts[i]

\* C3: in a rank-restricted section the listing of a viewer whose role lacks
\* full visibility is exactly the viewer's own items of that section, and the
\* listing of a viewer whose role has full visibility is the items of all
\* authors in that section.
C3_AuthorFilter ==
    (IsListing /\ lastOp.section \in PRIVATE_SECTIONS) =>
        /\ lastOp.code = 200
        /\ Len(lastOp.items) = Cardinality(ListedIds)
        /\ \A k \in 1..Len(lastOp.items) : lastOp.items[k] = posts[lastOp.items[k].id]
        /\ IF canViewAllReports(users[lastOp.actor].role, lastOp.section)
           THEN ListedIds = {i \in PostIds : posts[i].section = lastOp.section}
           ELSE ListedIds = {i \in PostIds : /\ posts[i].section = lastOp.section
                                              /\ posts[i].authorId = lastOp.actor}

\* The helper listed bug-reports holding one own and one foreign item and got
\* the own item only.
C3_Witness ==
    /\ IsListing
    /\ lastOp.actor = "hank"
    /\ lastOp.section = "bug-reports"
    /\ Len(lastOp.items) = 1
    /\ lastOp.items[1].authorId = "hank"
    /\ \E i \in PostIds : posts[i].section = "bug-reports" /\ posts[i].authorId = "alice"

-----------------------------------------------------------------------------
(* Roles and capabilities *)

RankTable ==
    /\ ROLE_HIERARCHY["user"] = 0
    /\ ROLE_HIERARCHY["helper"] = 1
    /\ ROLE_HIERARCHY["moderator"] = 2
    /\ ROLE_HIERARCHY["admin"] = 3
    /\ ROLE_HIERARCHY["developer"] = 3
    /\ ROLE_HIERARCHY["owner"] = 4

IsStatusCall == lastOp.op = "status" /\ lastOp.actor # NoSession

-----------------------------------------------------------------------------
(* Delete and restore *)

RankAtLeastModerator == {"moderator", "admin", "developer", "owner"}
RankAtLeastAdmin == {"admin", "developer", "owner"}

OthersUnchanged(id) ==
    /\ Len(posts') = Len(posts)
    /\ \A j \in PostIds : j # id => posts'[j] = posts[j]

\* C6: a delete succeeds exactly when the actor's rank is at least moderator
\* and the item exists; on success the item is Deleted with deletedBy the
\* actor's id and nothing else changes; an actor of lower rank gets 403.
C6_DeleteAuthorized ==
    [][(lastOp'.op = "delete" /\ lastOp'.actor # NoSession) =>
        LET actor == lastOp'.actor
            id == lastOp'.id
            allowed == users[actor].role \in RankAtLeastModerator
        IN  /\ lastOp'.code = 200 <=> (allowed /\ id \in PostIds)
            /\ ~allowed => lastOp'.code = 403
            /\ lastOp'.code # 200 => posts' = posts
            /\ lastOp'.code = 200 =>
                 /\ OthersUnchanged(id)
                 /\ posts'[id].deleted
                 /\ ~posts[id].deleted =>
                      posts'[id] = [posts[id] EXCEPT !.deleted = TRUE,
                                                     !.deletedBy = actor]
    ]_vars

\* The moderator deleted an Active item.
C6_Witness ==
    /\ lastOp.op = "delete"
    /\ lastOp.actor = "mona"
    /\ lastOp.code = 200
    /\ lastOp.before # <<>>
    /\ ~lastOp.before[1].deleted
    /\ posts[lastOp.id].deleted
    /\ posts[lastOp.id].deletedBy = "mona"

\* C7: a delete of an item that is already Deleted changes nothing; the
\* deletedBy recorded by the first delete stays, whoever issues the second.
C7_SecondDeleteNoOp ==
    [][(/\ lastOp'.op = "delete"
        /\ lastOp'.id \in PostIds
        /\ posts[lastOp'.id].deleted)
            => posts' = posts
    ]_vars

-----------------------------------------------------------------------------
(* Edit *)

\* C9: an edit is allowed only for the item's author and only while the item
\* is Active: a non-author gets 403, and an edit of a soft-deleted item is
\* rejected with title, body and updatedAt unchanged, its author included.
C9_EditOwnActiveOnly ==
    [][(lastOp'.op = "edit" /\ lastOp'.actor # NoSession /\ lastOp'.id \in PostIds) =>
        LET actor == lastOp'.actor
            id == lastOp'.id
        IN  /\ posts[id].authorId # actor => (lastOp'.code = 403 /\ posts' = posts)
            /\ posts[id].deleted => (lastOp'.code # 200 /\ posts' = posts)
    ]_vars

-----------------------------------------------------------------------------
(* Status *)

\* C10: a status call is authorized exactly for the holders of the bug-triage
\* capability: every other role gets 403 and the status stays; an accepted
\* call changes the status field of the addressed item and nothing else,
\* whether the item is Active or Deleted.
C10_StatusByTriageOnly ==
    [][(lastOp'.op = "status" /\ lastOp'.actor # NoSession) =>
        LET role == users[lastOp'.actor].role
            id == lastOp'.id
        IN  /\ lastOp'.code = 403 <=> ~canTagBugReport(role)
            /\ role \in {"user", "helper", "moderator", "admin"} => lastOp'.code = 403
            /\ lastOp'.code # 200 => posts' = posts
            /\ lastOp'.code = 200 =>
                 /\ Len(posts') = Len(posts)
                 /\ \A j \in PostIds :
                      posts'[j] = IF j = id
                                  THEN [posts[j] EXCEPT !.status = lastOp'.arg]
                                  ELSE posts[j]
    ]_vars

\* The developer set the status of a Deleted bug-reports item to fixed.
C10_Witness ==
    /\ lastOp.op = "status"
    /\ lastOp.actor = "dana"
    /\ lastOp.code = 200
    /\ lastOp.before # <<>>
    /\ lastOp.before[1].section = "bug-reports"
    /\ lastOp.before[1].deleted
    /\ lastOp.before[1].status # "fixed"
    /\ posts[lastOp.id] = [lastOp.before[1] EXCEPT !.status = "fixed"]

-----------------------------------------------------------------------------
(* Status is for bug reports only *)

\* C11: a status call, whoever makes it, leaves the status of every row of a
\* section other than bug-reports as it was.
C11_StatusOnlyInBugReports ==
    [][lastOp'.op = "status" =>
          \A i \in 1..Len(posts) :
              posts[i].section # "bug-reports" =>
                  posts'[i].status = posts[i].status]_vars

\* C12: every row that has a status has one of pending, fixed, invalid, and
\* a status call with any other value is answered 400 and stores nothing.
C12_StatusDomain ==
    /\ \A i \in 1..Len(posts) :
           posts[i].status # NULL => posts[i].status \in {"pending", "fixed", "invalid"}
    /\ (/\ lastOp.op = "status"
        /\ lastOp.actor # NoSession
        /\ ~StatusForbidden(users[lastOp.actor].role)
        /\ lastOp.arg \notin {"pending", "fixed", "invalid"})
       => (/\ lastOp.code = 400
           /\ lastOp.before # <<>> => posts[lastOp.id] = lastOp.before[1])

-----------------------------------------------------------------------------
(* Create *)

\* C13: a create call by an authenticated actor whose role cannot enter
\* dev-panel is answered 403 for section dev-panel and leaves the posts as
\* they were; in every other section it succeeds and adds one row.
C13_CreateNeedsEntryRights ==
    [][(lastOp'.op = "create" /\ lastOp'.actor # NoSession) =>
        IF ~canAccessSection(users[lastOp'.actor].role, lastOp'.section)
        THEN lastOp'.code = 403 /\ posts' = posts
        ELSE /\ lastOp'.code = 200
             /\ Len(posts') = Len(posts) + 1
             /\ posts'[Len(posts')].section = lastOp'.section
    ]_vars

-----------------------------------------------------------------------------
(* Appeals *)

IsDecide(r) == r.op \in {"approve", "reject"}

Decision(r) == IF r.op = "approve" THEN "true" ELSE "false"

PendingIds == {i \in 1..Len(appeals) : SqlEq(appeals[i].approved, NULL)}

\* C14: a new appeal is Pending (approved is null); a decide call by an
\* authorized actor on a Pending appeal stores the chosen decision, and the
\* appeal is then not among the pending appeals.
C14_DecideMovesPending ==
    [][/\ (lastOp'.op = "appeal" /\ lastOp'.code = 200) =>
             appeals'[Len(appeals')].approved = NULL
       /\ (/\ IsDecide(lastOp')
           /\ lastOp'.actor # NoSession
           /\ ~ModerationForbidden(users[lastOp'.actor].role)
           /\ lastOp'.before # <<>>
           /\ lastOp'.before[1].approved = NULL)
          => (/\ lastOp'.code = 200
              /\ appeals'[lastOp'.id].approved = Decision(lastOp')
              /\ lastOp'.id \notin PendingIds')
    ]_vars

\* An appeal is decided once a decision is stored for it or a decide call on
\* it has been answered with success.
WasDecided(id) ==
    \/ appeals[id].approved # NULL
    \/ IsDecide(lastOp) /\ lastOp.id = id /\ lastOp.code = 200

\* C15: a decide call by an authorized actor on an appeal that has been
\* decided is answered 409 and leaves the stored appeal as it was.
C15_DecidedIsTerminal ==
    [][\A id \in 1..Len(appeals) :
          (/\ WasDecided(id)
           /\ IsDecide(lastOp')
           /\ lastOp'.id = id
           /\ lastOp'.actor # NoSession
           /\ ~ModerationForbidden(users[lastOp'.actor].role))
          => (lastOp'.code = 409 /\ appeals'[id] = appeals[id])
    ]_vars

IsModerationCall(r) ==
    r.op \in {"appeals", "approve", "reject", "revoke"} /\ r.actor # NoSession

\* C16 as stated: the appeals listing, the decide calls and the revocation
\* are refused exactly for the roles of rank below moderator, so that the
\* developer is admitted to all of them.
C16_ModerationByRank ==
    [][IsModerationCall(lastOp') =>
          (lastOp'.code = 403 <=> users[lastOp'.actor].role \notin RankAtLeastModerator)
    ]_vars

\* C16, amended: the three operations are refused exactly for the roles
\* other than moderator, admin and owner (user, helper and developer are
\* refused); a refusal changes nothing, an accepted revocation removes the
\* punishment.
C16_ModerationByRoleName ==
    [][IsModerationCall(lastOp') =>
        LET role == users[lastOp'.actor].role
        IN  /\ lastOp'.code = 403 <=> role \notin {"moderator", "admin", "owner"}
            /\ role \in {"user", "helper", "developer"} => lastOp'.code = 403
            /\ lastOp'.code # 403 => lastOp'.code = 200
            /\ lastOp'.code = 403 => (punishments' = punishments /\ appeals' = appeals)
            /\ (lastOp'.op = "revoke" /\ lastOp'.code = 200) =>
                   /\ Len(punishments') = Len(punishments)
                   /\ \A i \in 1..Len(punishments) :
                          punishments'[i] = IF i = lastOp'.id THEN {} ELSE punishments[i]
    ]_vars

\* The developer asked to revoke an existing punishment and was refused; the
\* punishment is still there.
C16_Witness ==
    /\ lastOp.op = "revoke"
    /\ lastOp.actor = "dana"
    /\ lastOp.code = 403
    /\ lastOp.before # <<>>
    /\ PunishmentExists(lastOp.id)

\* C17: an appeal call succeeds and stores one appeal when punishmentId
\* resolves to a punishment; otherwise it is answered 404 and stores nothing.
C17_AppealNeedsPunishment ==
    [][(lastOp'.op = "appeal" /\ lastOp'.actor # NoSession) =>
          IF PunishmentExists(lastOp'.arg.punishmentId)
          THEN lastOp'.code = 200 /\ Len(appeals') = Len(appeals) + 1
          ELSE lastOp'.code = 404 /\ appeals' = appeals
    ]_vars

-----------------------------------------------------------------------------
(* Reputation *)

\* The tier of a total, as the threshold table states it.
BadgeOf(total) ==
    CASE total >= 300 -> "legendary-qube"
      [] total >= 225 /\ total < 300 -> "unique-qube"
      [] total >= 150 /\ total < 225 -> "epic-qube"
      [] total >= 80 /\ total < 150 -> "qubed"
      [] total >= 35 /\ total < 80 -> "climber"
      [] total >= 10 /\ total < 35 -> "member"
      [] total < 10 -> "new-member"

Total(row) == row.postCount + row.messageCount

\* C18: updateUserBadge leaves the counters alone and stores the tier of
\* total = postCount + messageCount by the threshold table (9 gives
\* new-member, 10 and 34 member, 35 climber, 300 legendary-qube); run on a
\* row whose badge is already that tier, it changes nothing.
C18_BadgeThresholds ==
    [][lastOp'.op = "updateUserBadge" =>
        LET u == lastOp'.actor
            total == Total(counters'[u])
        IN  /\ counters'[u].postCount = counters[u].postCount
            /\ counters'[u].messageCount = counters[u].messageCount
            /\ counters'[u].badge = BadgeOf(total)
            /\ total = 9 => counters'[u].badge = "new-member"
            /\ total \in {10, 34} => counters'[u].badge = "member"
            /\ total = 35 => counters'[u].badge = "climber"
            /\ total = 300 => counters'[u].badge = "legendary-qube"
            /\ counters[u].badge = BadgeOf(total) => counters' = counters
    ]_vars

\* A row with total 35 and stored badge member was recomputed to climber.
C18_Witness ==
    /\ lastOp.op = "updateUserBadge"
    /\ lastOp.before[1].badge = "member"
    /\ Total(counters[lastOp.actor]) = 35
    /\ counters[lastOp.actor].badge = "climber"

\* C19: an accepted create call raises the author's postCount by one, an
\* accepted message call raises the sender's messageCount by one, and the
\* stored badge is then the tier of the new counters.
C19_ActivityRecorded ==
    [][/\ (lastOp'.op = "create" /\ lastOp'.code = 200) =>
             LET a == lastOp'.actor
             IN  /\ counters'[a].postCount = counters[a].postCount + 1
                 /\ counters'[a].messageCount = counters[a].messageCount
                 /\ counters'[a].badge = BadgeOf(Total(counters'[a]))
       /\ (lastOp'.op = "message" /\ lastOp'.code = 200) =>
             LET a == lastOp'.actor
             IN  /\ counters'[a].messageCount = counters[a].messageCount + 1
                 /\ counters'[a].postCount = counters[a].postCount
                 /\ counters'[a].badge = BadgeOf(Total(counters'[a]))
    ]_vars

\* C20: whenever no increment call is running, every account's counters
\* are the initial values (zero) plus the number of increment calls made
\* for it, and its stored badge is the tier of those counters.
C20_NoLostIncrement ==
    \A a \in Accounts :
        /\ counters[a].postCount = calls[a].post
        /\ counters[a].messageCount = calls[a].message
        /\ counters[a].badge = BadgeOf(Total(counters[a]))

-----------------------------------------------------------------------------
(* Failures of the content operations *)

IsContentCall(r) == r.op \in {"edit", "delete", "revive", "status"}

\* C22: an edit, delete, restore or status call that passes the session,
\* role and body tests and addresses an id that resolves to no row is
\* answered 404 and leaves the posts as they were.
C22_MissingIdNotFound ==
    [][(/\ IsContentCall(lastOp')
        /\ lastOp'.before = <<>>
        /\ lastOp'.code \notin {400, 401, 403})
       => (lastOp'.code = 404 /\ posts' = posts)
    ]_vars

\* C23: an edit, delete, restore or status call answered 400, 401, 403 or
\* 404 leaves every field of every row as it was.
C23_FailureWritesNothing ==
    [][(IsContentCall(lastOp') /\ lastOp'.code \in {400, 401, 403, 404})
       => posts' = posts
    ]_vars

\* A user who is not the author asked to edit an existing row, was refused,
\* and the row is as it was.
C23_Witness ==
    /\ lastOp.op = "edit"
    /\ lastOp.code = 403
    /\ lastOp.before # <<>>
    /\ posts[lastOp.id] = lastOp.before[1]

-----------------------------------------------------------------------------
(* Deleted flag and deletedBy *)

\* C26: in every state each row is deleted exactly when its deletedBy is
\* set, and a set deletedBy names an account of rank moderator or above.
C26_DeletedIffDeletedBy ==
    \A i \in 1..Len(posts) :
        /\ posts[i].deleted <=> posts[i].deletedBy # NULL
        /\ posts[i].deletedBy # NULL =>
               /\ posts[i].deletedBy \in DOMAIN users
               /\ users[posts[i].deletedBy].role \in RankAtLeastModerator

\* With another row already deleted by a different staff member, an active
\* row was deleted: its flag is set and its deletedBy names the caller.
C26_Witness ==
    /\ lastOp.op = "delete"
    /\ lastOp.code = 200
    /\ lastOp.before[1].deleted = FALSE
    /\ lastOp.before[1].deletedBy = NULL
    /\ \E j \in 1..Len(posts) : j # lastOp.id /\ posts[j].deleted
                                 /\ posts[j].deletedBy # lastOp.actor
    /\ posts[lastOp.id].deleted
    /\ posts[lastOp.id].deletedBy = lastOp.actor

-----------------------------------------------------------------------------
(* Direct messages *)

\* The account ids whose username is the given one.
Named(username) == {a \in DOMAIN users : users[a].username = username}

\* C30: a message call stores one message, from the session user to the
\* named account with the given content, exactly when the content is a
\* string of 1 to 2000 characters, the recipient username names an account
\* and that account is not the sender; every other call is answered 400,
\* 401 or 404 (404 for a well-formed message to an unknown username) and
\* leaves the messages as they were.  A listing for u holds exactly the
\* messages whose recipient is u.
C30_MessageValidation ==
    [][/\ lastOp'.op = "message" =>
            LET body == lastOp'.arg
                actor == lastOp'.actor
                wellFormed == /\ body.content.type = "string"
                              /\ body.content.length >= 1
                              /\ body.content.length <= 2000
                accepted == /\ actor # NoSession
                            /\ wellFormed
                            /\ Named(body.recipientUsername) # {}
                            /\ actor \notin Named(body.recipientUsername)
            IN  IF accepted
                THEN /\ lastOp'.code = 200
                     /\ Len(messages') = Len(messages) + 1
                     /\ \A i \in 1..Len(messages) : messages'[i] = messages[i]
                     /\ messages'[Len(messages')].senderId = actor
                     /\ messages'[Len(messages')].recipientId \in Named(body.recipientUsername)
                     /\ messages'[Len(messages')].content = body.content
                ELSE /\ lastOp'.code \in {400, 401, 404}
                     /\ messages' = messages
                     /\ (/\ actor # NoSession
                         /\ wellFormed
                         /\ body.recipientUsername # ""
                         /\ Named(body.recipientUsername) = {}) => lastOp'.code = 404
       /\ (lastOp'.op = "messages" /\ lastOp'.code = 200) =>
            /\ \A k \in 1..Len(lastOp'.items) : lastOp'.items[k].recipientId = lastOp'.actor
            /\ {lastOp'.items[k].id : k \in 1..Len(lastOp'.items)}
                   = {i \in 1..Len(messages) : messages[i].recipientId = lastOp'.actor}
    ]_vars

\* A message of exactly 2000 characters from one user to another was stored.
C30_Witness ==
    /\ lastOp.op = "message"
    /\ lastOp.code = 200
    /\ lastOp.arg.content.length = 2000
    /\ messages[lastOp.id].senderId = lastOp.actor
    /\ messages[lastOp.id].recipientId # lastOp.actor

-----------------------------------------------------------------------------
(* Discord client lifecycle *)

\* C29: once a client has connected and a shutdown of it has completed
\* (the client variable is null again), a call of initializeDiscordBot
\* with a token configured creates a new client and starts its login; and
\* at most one client exists at any time.
C29_Reconnects ==
    [][/\ (/\ discord.discordClient = <<>>
           /\ discord.connected \cap discord.destroyed # {}
           /\ LiveClients = {}
           /\ lastOp'.op = "initialize"
           /\ lastOp'.arg # NULL)
          => /\ discord'.discordClient # <<>>
             /\ discord'.created = discord.created + 1
             /\ discord'.discordClient[1] \in discord'.loggingIn
       /\ Cardinality(LiveClients') <= 1
    ]_vars

-----------------------------------------------------------------------------
(* Accounts *)

\* No two accounts have the same username.
UniqueUsernames(table) ==
    \A a, b \in DOMAIN table : a # b => table[a].username # table[b].username

C27_RoleOnlyUser ==
    [][/\ \A a \in DOMAIN users : a \in DOMAIN users' /\ users'[a].role = users[a].role
       /\ \A a \in DOMAIN users' \ DOMAIN users : users'[a].role = "user"
       /\ \A a \in DOMAIN users' \ Accounts : users'[a].role = "user"
    ]_vars

\* A signup that asked for role owner was answered 200 and its account has
\* role user, also after the account set an avatar with a role in the body.
C27_Witness ==
    /\ lastOp.op = "avatar"
    /\ lastOp.code = 200
    /\ lastOp.arg.role = "owner"
    /\ lastOp.actor \notin Accounts
    /\ users[lastOp.actor].avatar # NULL
    /\ users[lastOp.actor].role = "user"

\* C28: the author of a created post and the user of a created appeal are
\* the session user of the call, whatever authorId or userId the body
\* carries.
C28_AttributedToSession ==
    [][/\ (lastOp'.op = "create" /\ lastOp'.code = 200) =>
            /\ Len(posts') = Len(posts) + 1
            /\ posts'[Len(posts')].authorId = lastOp'.actor
       /\ (lastOp'.op = "appeal" /\ lastOp'.code = 200) =>
            /\ Len(appeals') = Len(appeals) + 1
            /\ appeals'[Len(appeals')].userId = lastOp'.actor
       /\ lastOp'.op \in {"create", "appeal"} /\ lastOp'.code # 200 =>
            posts' = posts /\ appeals' = appeals
    ]_vars

\* A post was created by a call whose body named another account as the
\* author, after an appeal whose body named another user; both belong to
\* their callers.
C28_Witness ==
    /\ lastOp.op = "create"
    /\ lastOp.code = 200
    /\ lastOp.arg \notin {NULL, lastOp.actor}
    /\ posts[Len(posts)].authorId = lastOp.actor
    /\ Len(appeals) > 0

-----------------------------------------------------------------------------
(* Order of a listing *)

\* C24: a listing is ordered by creation time, newest first, and rows of
\* the same creation time by id, highest first; the rows fix the order.
C24_OrderDetermined ==
    (lastOp.op = "list" /\ lastOp.code = 200) =>
        \A k, l \in 1..Len(lastOp.items) :
            k < l =>
                \/ lastOp.items[k].createdAt > lastOp.items[l].createdAt
                \/ /\ lastOp.items[k].createdAt = lastOp.items[l].createdAt
                   /\ lastOp.items[k].id > lastOp.items[l].id

-----------------------------------------------------------------------------
(* One role and section policy *)

\* Whether the author filter of getPosts lets a row of another author pass.
getPostsViewsAll(section, requesterRole) ==
    getPostsWhere([section |-> section, authorId |-> "alice"], section,
                  requesterRole, "hank")

\* C25: the six copies of the rank table give every role the same rank,
\* and canViewAllReports, the author filter of getPosts and the section
\* page's canViewAllInSection agree for every role on player-reports,
\* bug-reports and support-tickets; so the page keeps every row the server
\* lists there, and the server lists every row the page would show.
C25_OnePolicy ==
    /\ \A r \in Roles :
        /\ ROLE_HIERARCHY_getPosts[r] = ROLE_HIERARCHY[r]
        /\ ROLE_HIERARCHY_delete[r] = ROLE_HIERARCHY[r]
        /\ ROLE_HIERARCHY_revive[r] = ROLE_HIERARCHY[r]
        /\ ROLE_HIERARCHY_section[r] = ROLE_HIERARCHY[r]
        /\ ROLE_HIERARCHY_sidebar[r] = ROLE_HIERARCHY[r]
        /\ \A s \in PRIVATE_SECTIONS :
            /\ canViewAllReports(r, s) <=> getPostsViewsAll(s, r)
            /\ canViewAllReports(r, s) <=> canViewAllInSection(s, r)
    /\ (IsListing /\ lastOp.code = 200 /\ lastOp.section \in PRIVATE_SECTIONS) =>
         LET role == users[lastOp.actor].role
         IN  ListedIds = {i \in PostIds :
                             /\ posts[i].section = lastOp.section
                             /\ pageShows(posts[i], lastOp.section, role, lastOp.actor)}

\* An admin lists bug-reports and is given no report of another user,
\* although there is one: rank 3 does not give the full view there.
C25_Witness ==
    /\ IsListing
    /\ lastOp.code = 200
    /\ lastOp.section = "bug-reports"
    /\ users[lastOp.actor].role = "admin"
    /\ \E i \in PostIds : posts[i].section = "bug-reports" /\ posts[i].authorId # lastOp.actor
    /\ \A k \in 1..Len(lastOp.items) : lastOp.items[k].authorId = lastOp.actor

====
